---- MODULE Spec2Model ----
(***************************************************************************)
(* Model of rpi-x708pwm.py: the x708 power management supervisor.          *)
(*                                                                         *)
(* The main thread runs main() and then the poll loop of battery_monitor.  *)
(* The power button and the AC-loss line are gpiozero devices whose        *)
(* callbacks are dispatched on gpiozero's own threads, so they interleave  *)
(* with the main thread at every step.                                     *)
(*                                                                         *)
(* Voltages are exact rationals over VoltDen: the code's                   *)
(* swapped * 1.25 / 1000 / 16 is swapped * 125 / 1600000.                  *)
(***************************************************************************)
EXTENDS Integers, Sequences, FiniteSets, TLC

\* ------------------------------------------------------------------ bounds
MaxCycles == 3          \* poll cycles the model follows
MaxPresses == 2         \* button presses the model follows

\* --------------------------------------------------------------- constants
_GPIO_PIN_PWR_BUTTON == 5
_GPIO_PIN_AC_LOST == 6
_GPIO_PIN_PWR_TRIGGER == 12
I2C_BATTERY_ADDR == 54
hold_time == 2

\* one volt, in the unit voltages are kept in (1 / 1600000 V)
VoltDen == 1600000

\* ------------------------------------------------------------------ inputs
\* --min-voltage values, in tenths of a volt (3.5 is the default)
MinVoltages == {25, 35}
\* words read_word_data returns for register 2 (before the byte swap):
\* 0.1 V, 3.2 V, 3.5 V, 3.9 V
VoltWords == {5, 160, 175, 195}
\* words read_word_data returns for register 4: 1 %, 100 %
CapWords == {1, 100}
\* keys typed at the terminal during a wait
Keys == {"q", "x"}
\* lines the temperature file yields: a number, or text int() rejects
TempLines == {[num |-> TRUE, val |-> 45500],
              [num |-> TRUE, val |-> 0],
              [num |-> FALSE, val |-> 0]}

VARIABLES
    args,           \* parsed command line: min_voltage, flag_ncurses, flag_quiet, flag_watch
    root,           \* os.geteuid() == 0
    pc,             \* position of the main thread
    exitcode,       \* "running", or the status the process ends with
    temp_fd,        \* "unset", "open" or "None"
    nco,            \* the NcursesOutput object exists
    cleanups,       \* calls of nco.cleanup()
    sample,         \* (temp, volt, batt) of the current cycle
    attempts,       \* calls of get_params
    samples,        \* returns of get_params
    guardRes,       \* outcome of the voltage check of the current cycle
    guards,         \* evaluations of the voltage check (line 204)
    leave,          \* how the try block of battery_monitor was left
    quit_at,        \* the cycle in which q was typed (0: never)
    shown,          \* number of the last cycle handed to the output
    stdout,         \* what was written to standard output / the screen
    stderr,         \* what was written to standard error
    actions,        \* commands run: wall, poweroff, reboot, in order
    btn,            \* the power button line: "up" or "down"
    held,           \* Button.is_held
    press,          \* number of the current (or last) press
    cb,             \* the last button callback gpiozero dispatched
    when_released,  \* pwr_button.when_released is set
    when_held,      \* pwr_button.when_held is set
    holdThread,     \* gpiozero's hold thread is running
    eventThread,    \* the pin factory's edge thread is running
    pwr_trigger,    \* the power-enable output is on
    button_value,   \* pwr_button.value as read at line 335 ("unread" before)
    ac,             \* the AC-loss line: "present" or "lost"
    pld_cb          \* callbacks of the AC-loss device are set

vars == <<args, root, leave, quit_at, guards, pc, exitcode, temp_fd, nco, cleanups,
          sample, attempts, samples, guardRes, shown, stdout, stderr,
          actions, btn, held, press, cb, when_released, when_held,
          holdThread, eventThread, pwr_trigger, button_value, ac, pld_cb>>

mainVars == <<args, root, leave, quit_at, guards, pc, exitcode, temp_fd, nco, cleanups,
              sample, attempts, samples, guardRes, shown, stdout, stderr>>
gpioVars == <<when_released, when_held, pwr_trigger, pld_cb, button_value>>
btnVars == <<btn, held, press, cb, holdThread, eventThread>>

NoSample == [temp |-> [absent |-> TRUE, int |-> 0, milli |-> 0],
             volt |-> 0, batt |-> [int |-> 0, frac |-> 0], valid |-> FALSE,
             templine |-> [num |-> FALSE, val |-> 0], voltword |-> 0, capword |-> 0]
NoCallback == [name |-> "none", press |-> 0, is_held |-> FALSE]

\* ----------------------------------------------------------- pure helpers
\* struct.unpack("<H", struct.pack(">H", read))[0]
swap16(read) == (read % 256) * 256 + (read \div 256)

\* variant of read_voltage without the byte swap
read_voltage_noswap(read) == read * 125

\* read_voltage: swapped * 1.25 / 1000 / 16, as a numerator over VoltDen
read_voltage(read) == swap16(read) * 125

\* variant of read_capacity without the byte swap
read_capacity_noswap(read) == [int |-> read \div 256, frac |-> read % 256]

\* read_capacity: swapped / 256, as whole percent and 256ths
read_capacity(read) ==
    [int |-> swap16(read) \div 256, frac |-> swap16(read) % 256]

\* variant of is_positive_int that lets zero through
is_positive_int_ge(n) == n >= 0

\* is_positive_int(n): int(n) > 0
is_positive_int(n) == n > 0

\* read_temperature: int(fd.readline()) / 1000, or -1 once anything raises
read_temperature(line) ==
    IF line.num /\ is_positive_int(line.val)
    THEN [absent |-> FALSE, int |-> line.val \div 1000, milli |-> line.val % 1000]
    ELSE [absent |-> FALSE, int |-> -1, milli |-> 0]

\* args['min_voltage'] in the unit of read_voltage
min_voltage == args.min_voltage * (VoltDen \div 10)

\* variants of the voltage check: the boundary taken as a trigger; the watch
\* flag left out
VoltageGuard_le(volt, minv, watch) == (~watch) /\ volt <= minv
VoltageGuard_nowatch(volt, minv, watch) == volt < minv

\* variant of the voltage check with the comparison turned round
VoltageGuard_gt(volt, minv, watch) == (~watch) /\ volt > minv

\* line 204: not flag_watch and (volt < min_voltage)
VoltageGuard(volt, minv, watch) == (~watch) /\ volt < minv

\* variant of the early return: never taken
NothingToDo_never(watch, quiet) == FALSE

\* line 318: flag_watch and flag_quiet
NothingToDo(watch, quiet) == watch /\ quiet

\* variant of the wiring check: the line always reads low
ButtonPulledHigh_never(b) == FALSE

\* line 335: pwr_button.value
ButtonPulledHigh(b) == b = "down"

\* line 189 / 249: (not flag_quiet) and use_ncurses
UsesNcurses == (~args.flag_quiet) /\ args.flag_ncurses

\* variants of the release callback: is_held not consulted; do_shutdown
\* called in place of do_reboot
pwr_btn_released_callback_always(is_held) == "reboot"
pwr_btn_released_callback_shutdown(is_held) == IF ~is_held THEN "poweroff" ELSE "none"

\* pwr_btn_released_callback: reboot unless the button is held
pwr_btn_released_callback(is_held) == IF ~is_held THEN "reboot" ELSE "none"

\* pwr_btn_held_callback: always poweroff
pwr_btn_held_callback(is_held) == "poweroff"

\* variant of do_shutdown without exit(): the loop goes on after poweroff
ExitInMainThread_returns(at) == "sleep"

\* exit() at line 256, called on the main thread: SystemExit leaves the try
\* block of battery_monitor through its finally clause
ExitInMainThread(at) == "finally"

\* variant of the startup order: the callbacks are set before the button
\* line is checked
NextStartup_late_check(at) ==
    CASE at = "gpio_setup" -> "reg_released"
      [] at = "reg_released" -> "reg_held"
      [] at = "reg_held" -> "check_button"
      [] at = "check_button" -> "bm_start"

\* main, lines 324-345, in statement order: the devices and pwr_trigger.on(),
\* the wiring check, when_released, when_held, battery_monitor
NextStartup(at) ==
    CASE at = "gpio_setup" -> "check_button"
      [] at = "check_button" -> "reg_released"
      [] at = "reg_released" -> "reg_held"
      [] at = "reg_held" -> "bm_start"

\* variant of the quiet test: the cycle always goes on to its output
AfterGuardOk_display(quiet) == "display"

\* lines 211-213: a quiet cycle sleeps and continues, any other one prints
AfterGuardOk(quiet) == IF quiet THEN "sleep" ELSE "display"

\* variant of the key test: no key is taken as quit
getchar_quit_never(ch) == FALSE

\* line 232: ord('q') == nco.getchar()
getchar_quit(ch) == ch = "q"

\* variant of the handler: KeyboardInterrupt is not caught
InterruptReturn_uncaught(at) == "traceback"

\* lines 245-246: except KeyboardInterrupt: return 0
InterruptReturn(at) == "0"

\* variant of the finally test: the quiet flag left out
CleanupCondition_noquiet(quiet, ncurses) == ncurses

\* line 249: (not flag_quiet) and use_ncurses
CleanupCondition(quiet, ncurses) == (~quiet) /\ ncurses

Entry(a, s, p) == [act |-> a, src |-> s, press |-> p]

alive == pc # "exited"

Init ==
    /\ args \in [min_voltage : MinVoltages, flag_ncurses : BOOLEAN,
                 flag_quiet : BOOLEAN, flag_watch : BOOLEAN]
    /\ root \in BOOLEAN
    /\ pc = "main"
    /\ exitcode = "running"
    /\ temp_fd = "unset"
    /\ nco = FALSE
    /\ cleanups = 0
    /\ sample = NoSample
    /\ attempts = 0
    /\ samples = 0
    /\ guardRes = "none"
    /\ guards = 0
    /\ leave = "none"
    /\ quit_at = 0
    /\ shown = 0
    /\ stdout = {}
    /\ stderr = {}
    /\ actions = <<>>
    /\ btn = "up"
    /\ held = FALSE
    /\ press = 0
    /\ cb = NoCallback
    /\ when_released = FALSE
    /\ when_held = FALSE
    /\ holdThread = FALSE
    /\ eventThread = FALSE
    /\ pwr_trigger = FALSE
    /\ button_value = "unread"
    /\ ac = "present"
    /\ pld_cb = FALSE


\* ------------------------------------------------------------ main thread
\* main, lines 306-322: privilege check, the watch+quiet early return
main ==
    /\ pc = "main"
    /\ IF ~root
       THEN /\ stderr' = stderr \cup {"err_root"}
            /\ pc' = "exited"
            /\ exitcode' = "-1"
            /\ UNCHANGED stdout
       ELSE IF NothingToDo(args.flag_watch, args.flag_quiet)
       THEN /\ stdout' = stdout \cup {"nothing_to_do"}
            /\ pc' = "exited"
            /\ exitcode' = "0"
            /\ UNCHANGED stderr
       ELSE /\ pc' = IF ~args.flag_watch THEN "gpio_setup" ELSE "bm_start"
            /\ UNCHANGED <<exitcode, stdout, stderr>>
    /\ UNCHANGED <<args, root, leave, quit_at, guards, temp_fd, nco, cleanups,
                   sample, attempts, samples, guardRes, shown, actions>>
    /\ UNCHANGED <<gpioVars, btnVars, ac>>

\* main, lines 324-334: the AC-loss device and its callbacks, the trigger
\* output, the Button (gpiozero starts its threads), pwr_trigger.on()
GpioSetup ==
    /\ pc = "gpio_setup"
    /\ pld_cb' = TRUE
    /\ holdThread' = TRUE
    /\ eventThread' = TRUE
    /\ pwr_trigger' = TRUE
    /\ pc' = NextStartup(pc)
    /\ UNCHANGED <<args, root, leave, quit_at, guards, exitcode, temp_fd, nco,
                   cleanups, sample, attempts, samples, guardRes, shown,
                   stdout, stderr, actions, btn, held, press, cb,
                   when_released, when_held, button_value, ac>>

\* main, lines 335-337: the wiring check
CheckButton ==
    /\ pc = "check_button"
    /\ IF ButtonPulledHigh(btn)
       THEN /\ stderr' = stderr \cup {"err_button"}
            /\ pc' = "exited"
            /\ exitcode' = "-1"
       ELSE /\ pc' = NextStartup(pc)
            /\ UNCHANGED <<stderr, exitcode>>
    /\ button_value' = btn
    /\ UNCHANGED <<args, root, leave, quit_at, guards, temp_fd, nco, cleanups,
                   sample, attempts, samples, guardRes, shown, stdout, actions>>
    /\ UNCHANGED <<when_released, when_held, pwr_trigger, pld_cb, btnVars, ac>>

\* main, line 339
RegReleased ==
    /\ pc = "reg_released"
    /\ when_released' = TRUE
    /\ pc' = NextStartup(pc)
    /\ UNCHANGED <<args, root, leave, quit_at, guards, exitcode, temp_fd, nco,
                   cleanups, sample, attempts, samples, guardRes, shown,
                   stdout, stderr, actions, when_held, pwr_trigger, pld_cb,
                   button_value, ac>>
    /\ UNCHANGED btnVars

\* main, line 340
RegHeld ==
    /\ pc = "reg_held"
    /\ when_held' = TRUE
    /\ pc' = NextStartup(pc)
    /\ UNCHANGED <<args, root, leave, quit_at, guards, exitcode, temp_fd, nco,
                   cleanups, sample, attempts, samples, guardRes, shown,
                   stdout, stderr, actions, when_released, pwr_trigger, pld_cb,
                   button_value, ac>>
    /\ UNCHANGED btnVars

\* main, lines 343-345 and battery_monitor, lines 183-197: the min_voltage
\* warning, the temperature file, the ncurses screen
BmStart ==
    /\ pc = "bm_start"
    /\ \E ok \in BOOLEAN :
         /\ temp_fd' = IF ok THEN "open" ELSE "None"
         /\ stderr' = IF ok THEN stderr ELSE stderr \cup {"err_open"}
         /\ stdout' = stdout
               \cup (IF (~args.flag_watch) /\ min_voltage < 3 * VoltDen
                     THEN {"warn_min_voltage"} ELSE {})
               \cup (IF ok THEN {} ELSE {"warn_temp"})
               \cup (IF UsesNcurses THEN {"nco_header"} ELSE {})
    /\ nco' = UsesNcurses
    /\ pc' = "sample"
    /\ UNCHANGED <<args, root, leave, quit_at, guards, exitcode, cleanups,
                   sample, attempts, samples, guardRes, shown, actions>>
    /\ UNCHANGED <<gpioVars, btnVars, ac>>

\* get_params, lines 171-177, called at line 201.  Without a temperature
\* file the name temperature is never bound: both registers are read and
\* the return statement raises UnboundLocalError, which only the finally
\* block of battery_monitor sees.
get_params ==
    /\ pc = "sample"
    /\ attempts' = attempts + 1
    /\ guardRes' = "none"
    /\ IF temp_fd = "None"
       THEN /\ pc' = "finally"
            /\ exitcode' = "traceback"
            /\ leave' = "exception"
            /\ UNCHANGED <<sample, samples, stderr>>
       ELSE /\ \E line \in TempLines, vw \in VoltWords, cw \in CapWords :
                 /\ sample' = [temp |-> read_temperature(line),
                               volt |-> read_voltage(vw),
                               batt |-> read_capacity(cw),
                               valid |-> TRUE,
                               templine |-> line, voltword |-> vw, capword |-> cw]
                 /\ stderr' = IF read_temperature(line).int = -1
                              THEN stderr \cup {"err_temp"} ELSE stderr
            /\ samples' = samples + 1
            /\ pc' = "guard"
            /\ UNCHANGED <<exitcode, leave>>
    /\ UNCHANGED <<args, root, quit_at, guards, temp_fd, nco, cleanups, shown,
                   stdout, actions>>
    /\ UNCHANGED <<gpioVars, btnVars, ac>>

\* battery_monitor, lines 204-213: the voltage check; on a trigger wall is
\* run, otherwise the cycle goes on to its sleep (quiet) or its output
Guard ==
    /\ pc = "guard"
    /\ guards' = guards + 1
    /\ IF VoltageGuard(sample.volt, min_voltage, args.flag_watch)
       THEN /\ actions' = Append(actions, Entry("wall", "guard", 0))
            /\ guardRes' = "Trigger"
            /\ pc' = "do_shutdown"
       ELSE /\ guardRes' = "Ok"
            /\ pc' = AfterGuardOk(args.flag_quiet)
            /\ UNCHANGED actions
    /\ UNCHANGED <<args, root, leave, quit_at, exitcode, temp_fd, nco, cleanups,
                   sample, attempts, samples, shown, stdout, stderr>>
    /\ UNCHANGED <<gpioVars, btnVars, ac>>

\* do_shutdown called at line 209: poweroff is run, then exit() raises
\* SystemExit in the main thread, which unwinds through the finally block
do_shutdown ==
    /\ pc = "do_shutdown"
    /\ actions' = Append(actions, Entry("poweroff", "guard", 0))
    /\ pc' = ExitInMainThread(pc)
    /\ exitcode' = IF pc' = "finally" THEN "0" ELSE exitcode
    /\ leave' = IF pc' = "finally" THEN "shutdown" ELSE leave
    /\ UNCHANGED <<args, root, quit_at, guards, temp_fd, nco, cleanups, sample,
                   attempts, samples, guardRes, shown, stdout, stderr>>
    /\ UNCHANGED <<gpioVars, btnVars, ac>>

\* battery_monitor, lines 217-229 (ncurses) and 237-242 (plain)
Display ==
    /\ pc = "display"
    /\ shown' = samples
    /\ stdout' = stdout \cup {IF args.flag_ncurses THEN "nco_sample" ELSE "sample"}
    /\ pc' = "sleep"
    /\ UNCHANGED <<args, root, leave, quit_at, guards, exitcode, temp_fd, nco,
                   cleanups, sample, attempts, samples, guardRes, stderr, actions>>
    /\ UNCHANGED <<gpioVars, btnVars, ac>>

\* the sleep of lines 212, 230-232 or 243 ends and the loop goes round
Wake ==
    /\ pc = "sleep"
    /\ attempts < MaxCycles
    /\ pc' = "sample"
    /\ UNCHANGED <<args, root, leave, quit_at, guards, exitcode, temp_fd, nco,
                   cleanups, sample, attempts, samples, guardRes, shown,
                   stdout, stderr, actions>>
    /\ UNCHANGED <<gpioVars, btnVars, ac>>

\* a key is typed during the wait of a cycle that produced output.  With
\* ncurses (lines 230-233) getchar returns it: q returns 0, any other key
\* ends the wait early.  Without ncurses (line 243) the wait is time.sleep
\* and nothing reads the terminal: the key is not seen by the program.
QuitKey ==
    /\ pc = "sleep"
    /\ ~args.flag_quiet
    /\ \E ch \in Keys :
         IF args.flag_ncurses
         THEN IF getchar_quit(ch)
              THEN /\ pc' = "finally"
                   /\ exitcode' = "0"
                   /\ leave' = "quit"
                   /\ quit_at' = samples
              ELSE /\ attempts < MaxCycles
                   /\ pc' = "sample"
                   /\ quit_at' = IF ch = "q" THEN samples ELSE quit_at
                   /\ UNCHANGED <<exitcode, leave>>
         ELSE /\ ch = "q"
              /\ quit_at = 0
              /\ quit_at' = samples
              /\ UNCHANGED <<pc, exitcode, leave>>
    /\ UNCHANGED <<args, root, guards, temp_fd, nco, cleanups, sample, attempts,
                   samples, guardRes, shown, stdout, stderr, actions>>
    /\ UNCHANGED <<gpioVars, btnVars, ac>>

\* battery_monitor, lines 245-246: KeyboardInterrupt inside the try block
Interrupt ==
    /\ pc \in {"sample", "guard", "do_shutdown", "display", "sleep"}
    /\ pc' = "finally"
    /\ exitcode' = InterruptReturn(pc)
    /\ leave' = IF pc = "sleep" THEN "interrupt_wait" ELSE "interrupt"
    /\ UNCHANGED <<args, root, quit_at, guards, temp_fd, nco, cleanups, sample,
                   attempts, samples, guardRes, shown, stdout, stderr, actions>>
    /\ UNCHANGED <<gpioVars, btnVars, ac>>

\* battery_monitor, lines 248-250, then the process ends
Finally ==
    /\ pc = "finally"
    /\ cleanups' = IF CleanupCondition(args.flag_quiet, args.flag_ncurses)
                   THEN cleanups + 1 ELSE cleanups
    /\ pc' = "exited"
    /\ UNCHANGED <<args, root, leave, quit_at, guards, exitcode, temp_fd, nco,
                   sample, attempts, samples, guardRes, shown, stdout, stderr,
                   actions>>
    /\ UNCHANGED <<gpioVars, btnVars, ac>>

\* ------------------------------------------------------- callback threads
\* exit() at lines 256 and 260, reached from a callback.  It raises
\* SystemExit in the thread gpiozero dispatched the callback on.  A Python
\* thread ends silently on SystemExit and the process lives on; a pin
\* factory that reports the exception from native code ends the process.
\* thread is "hold" or "event"; act is what the callback ran ("none": it
\* returned without calling exit).
CallbackExit(thread, act) ==
    IF act = "none"
    THEN UNCHANGED <<pc, exitcode, leave, holdThread, eventThread>>
    ELSE \E ends \in BOOLEAN :
           IF ends
           THEN /\ pc' = "exited"
                /\ exitcode' = "0"
                /\ leave' = "callback"
                /\ UNCHANGED <<holdThread, eventThread>>
           ELSE /\ holdThread' = IF thread = "hold" THEN FALSE ELSE holdThread
                /\ eventThread' = IF thread = "event" THEN FALSE ELSE eventThread
                /\ UNCHANGED <<pc, exitcode, leave>>

\* the command a callback runs, appended to the log
Run(act, src) ==
    actions' = IF act = "none" THEN actions
               ELSE Append(actions, Entry(act, src, press))

\* the button goes down
Press ==
    /\ alive
    /\ btn = "up"
    /\ press < MaxPresses
    /\ btn' = "down"
    /\ press' = press + 1
    /\ held' = FALSE
    /\ UNCHANGED <<args, root, leave, quit_at, guards, pc, exitcode, temp_fd,
                   nco, cleanups, sample, attempts, samples, guardRes, shown,
                   stdout, stderr, actions, cb, holdThread, eventThread, ac>>
    /\ UNCHANGED gpioVars

\* the button has been down for hold_time seconds (Button(..., hold_time = 2),
\* line 331): is_held becomes true and when_held, if set, is called once
HoldElapsed ==
    /\ alive
    /\ btn = "down"
    /\ ~held
    /\ held' = TRUE
    /\ IF when_held /\ holdThread
       THEN /\ cb' = [name |-> "held", press |-> press, is_held |-> TRUE]
            /\ Run(pwr_btn_held_callback(TRUE), "held")
            /\ CallbackExit("hold", pwr_btn_held_callback(TRUE))
       ELSE UNCHANGED <<cb, actions, pc, exitcode, leave, holdThread, eventThread>>
    /\ UNCHANGED <<args, root, quit_at, guards, temp_fd, nco, cleanups, sample,
                   attempts, samples, guardRes, shown, stdout, stderr, btn,
                   press, ac>>
    /\ UNCHANGED gpioVars

\* the button goes up: when_released, if set, is called with is_held as it
\* was at the release
Release ==
    /\ alive
    /\ btn = "down"
    /\ btn' = "up"
    /\ held' = FALSE
    /\ IF when_released /\ eventThread
       THEN /\ cb' = [name |-> "released", press |-> press, is_held |-> held]
            /\ Run(pwr_btn_released_callback(held), "released")
            /\ CallbackExit("event", pwr_btn_released_callback(held))
       ELSE UNCHANGED <<cb, actions, pc, exitcode, leave, holdThread, eventThread>>
    /\ UNCHANGED <<args, root, quit_at, guards, temp_fd, nco, cleanups, sample,
                   attempts, samples, guardRes, shown, stdout, stderr, press, ac>>
    /\ UNCHANGED gpioVars

\* variant of ac_power_lost_callback that powers the host off
ac_power_lost_callback_shutdown ==
    /\ alive
    /\ ac = "present"
    /\ ac' = "lost"
    /\ actions' = Append(actions, Entry("poweroff", "ac", 0))
    /\ UNCHANGED <<mainVars, gpioVars, btnVars>>

\* ac_power_lost_callback, lines 282-284: pass
ac_power_lost_callback ==
    /\ alive
    /\ ac = "present"
    /\ ac' = "lost"
    /\ UNCHANGED <<mainVars, actions, gpioVars, btnVars>>

\* ac_power_connected_callback, lines 278-280: pass
ac_power_connected_callback ==
    /\ alive
    /\ ac = "lost"
    /\ ac' = "present"
    /\ UNCHANGED <<mainVars, actions, gpioVars, btnVars>>

Next ==
    \/ main
    \/ GpioSetup
    \/ CheckButton
    \/ RegReleased
    \/ RegHeld
    \/ BmStart
    \/ get_params
    \/ Guard
    \/ do_shutdown
    \/ Display
    \/ Wake
    \/ QuitKey
    \/ Interrupt
    \/ Finally
    \/ Press
    \/ HoldElapsed
    \/ Release
    \/ ac_power_lost_callback
    \/ ac_power_connected_callback

Spec == Init /\ [][Next]_vars

TypeOK ==
    /\ pc \in {"main", "gpio_setup", "check_button", "reg_released", "reg_held",
               "bm_start", "sample", "guard", "do_shutdown", "display",
               "sleep", "finally", "exited"}
    /\ exitcode \in {"running", "0", "-1", "traceback"}
    /\ samples <= attempts /\ attempts <= MaxCycles
    /\ press \in 0..MaxPresses
    /\ leave \in {"none", "interrupt", "interrupt_wait", "quit", "shutdown",
                  "exception", "callback"}
    /\ quit_at \in 0..MaxCycles
    /\ guards \in 0..MaxCycles

\* ------------------------------------------------------------- properties
Guarded(a) == {i \in DOMAIN actions : actions[i] = Entry(a, "guard", 0)}
FromButton == {i \in DOMAIN actions : actions[i].src \in {"held", "released"}}
PowerActions == {i \in DOMAIN actions : actions[i].act \in {"poweroff", "reboot"}}
ByCallback(src, p) ==
    {i \in DOMAIN actions : actions[i].src = src /\ actions[i].press = p}

\* C1: in every poll cycle the voltage check fires (wall, then the way to
\* poweroff) exactly when watch-only is off and the sampled voltage is
\* strictly below min_voltage; at or above min_voltage, or in watch-only
\* mode, it does not fire and the cycle goes on to its output or sleep.
C1_GuardFiresExactlyBelow ==
    /\ guardRes = "Trigger" =>
          /\ ~args.flag_watch
          /\ sample.volt < min_voltage
          /\ Guarded("wall") # {}
    /\ guardRes = "Ok" =>
          /\ args.flag_watch \/ sample.volt >= min_voltage
          /\ Guarded("wall") = {} /\ Guarded("poweroff") = {}
    /\ pc = "do_shutdown" => guardRes = "Trigger"
    /\ pc \in {"display", "sleep"} => guardRes = "Ok"

C1_Witness ==
    /\ guardRes = "Trigger"
    /\ sample.volt < min_voltage
    /\ Guarded("poweroff") # {}
    /\ pc = "exited"

\* C2: at most one host power action (reboot or poweroff) is ever issued in
\* a process lifetime, whatever the interleaving of loop and callbacks.
C2_AtMostOnePowerAction == Cardinality(PowerActions) <= 1

\* C3: for a press that crosses the hold threshold the held callback runs
\* once and issues poweroff, and the release callback of that press, which
\* sees is_held true, issues nothing.
C3_ReleaseAfterHoldIsNoop ==
    /\ \A p \in 1..press : Cardinality(ByCallback("held", p)) <= 1
    /\ \A i \in DOMAIN actions :
          actions[i].src = "held" => actions[i].act = "poweroff"
    /\ cb.name = "held" =>
          \E i \in DOMAIN actions : actions[i] = Entry("poweroff", "held", cb.press)
    /\ (cb.name = "released" /\ cb.is_held) => ByCallback("released", cb.press) = {}

C3_Witness ==
    /\ cb.name = "released"
    /\ cb.is_held
    /\ \E i \in DOMAIN actions : actions[i] = Entry("poweroff", "held", cb.press)
    /\ btn = "up"

\* C4: for a press released before the hold threshold the release callback
\* issues reboot, the held callback does not run for that press and the
\* button issues no poweroff for it.
C4_ShortPressReboots ==
    (cb.name = "released" /\ ~cb.is_held) =>
        /\ \E i \in DOMAIN actions : actions[i] = Entry("reboot", "released", cb.press)
        /\ ByCallback("held", cb.press) = {}
        /\ \A i \in FromButton :
              actions[i].press = cb.press => actions[i].act # "poweroff"

C4_Witness ==
    /\ cb.name = "released"
    /\ ~cb.is_held
    /\ \E i \in DOMAIN actions : actions[i] = Entry("reboot", "released", cb.press)
    /\ ~args.flag_watch
    /\ button_value = "up"

\* C5: when the temperature file could not be opened, every call of
\* get_params still completes: the sample has no temperature, it has the
\* voltage and the charge, and the loop goes on to the voltage check.
C5_MissingTemperatureIsNotFatal ==
    temp_fd = "None" =>
        /\ exitcode # "traceback"
        /\ samples = attempts
        /\ attempts > 0 => (sample.valid /\ sample.temp.absent)

\* C6: with watch-only off the loop completes its cycles normally up to the
\* first sample below min_voltage; on that cycle wall is run first and
\* poweroff second, and no further sample is acquired.
C6_TriggerEndsTheLoop ==
    /\ Cardinality(Guarded("wall")) <= 1
    /\ Cardinality(Guarded("poweroff")) <= 1
    /\ \A i \in Guarded("poweroff") : \E j \in Guarded("wall") : j < i
    /\ Guarded("wall") # {} =>
          /\ guardRes = "Trigger"
          /\ sample.volt < min_voltage
          /\ pc \in {"do_shutdown", "finally", "exited"}
    /\ Guarded("poweroff") # {} => pc \in {"finally", "exited"}
    /\ (pc \in {"display", "sleep"} /\ ~args.flag_watch) =>
          /\ sample.volt >= min_voltage
          /\ Guarded("wall") = {}

C6_Witness ==
    /\ args.flag_quiet
    /\ ~args.flag_watch
    /\ args.min_voltage = 35
    /\ samples = 3
    /\ sample.volt = read_voltage(160)
    /\ actions = <<Entry("wall", "guard", 0), Entry("poweroff", "guard", 0)>>
    /\ pc = "exited"

\* C7: once a button callback has issued reboot or poweroff the process has
\* ended: no further sample, voltage check, output or callback.
C7_CallbackEndsTheProcess == FromButton # {} => ~alive

\* C8: in watch-only mode no host power action and no broadcast is ever
\* issued, whatever the voltages and the button and AC events.
C8_WatchOnlyNeverActs ==
    args.flag_watch => (actions = <<>> /\ ~when_released /\ ~when_held)

C8_Witness ==
    /\ args.flag_watch
    /\ guardRes = "Ok"
    /\ sample.volt < min_voltage
    /\ btn = "down"
    /\ held
    /\ ac = "lost"
    /\ actions = <<>>

\* C9: if the button line reads pressed at the startup check the monitor
\* refuses to start: the error is reported, the exit code is -1, no sample
\* is taken and no button callback is registered.
C9_WiringFaultRefusesToStart ==
    button_value = "down" =>
        /\ "err_button" \in stderr
        /\ pc = "exited"
        /\ exitcode = "-1"
        /\ attempts = 0
        /\ ~when_released /\ ~when_held
        /\ actions = <<>>

C9_Witness ==
    /\ button_value = "down"
    /\ "err_button" \in stderr
    /\ exitcode = "-1"
    /\ pwr_trigger

C11_InterruptReturnsZero ==
    leave \in {"interrupt", "interrupt_wait"} =>
        /\ exitcode = "0"
        /\ pc \in {"finally", "exited"}
        /\ pc = "finally" => cleanups = 0
        /\ pc = "exited" => cleanups = (IF nco THEN 1 ELSE 0)

C11_Witness ==
    /\ leave = "interrupt_wait"
    /\ pc = "exited"
    /\ exitcode = "0"
    /\ nco
    /\ cleanups = 1

\* C12 as stated: every non-quiet cycle hands its sample to the output and
\* then waits; a q typed during that wait ends the loop with exit code 0
\* and no further sample is acquired.
C12_QuitEndsEveryWait ==
    /\ (pc = "sleep" /\ ~args.flag_quiet) => shown = samples
    /\ quit_at > 0 =>
          /\ pc \in {"finally", "exited"}
          /\ exitcode = "0"
          /\ samples = quit_at

\* C12 as amended: every non-quiet cycle hands its sample to the output and
\* then waits; with ncurses output a q typed during the wait ends the loop
\* with exit code 0 and no further sample is acquired; with plain output the
\* wait is a sleep and a typed q never ends the loop.
C12_QuitEndsNcursesWait ==
    /\ (pc = "sleep" /\ ~args.flag_quiet) => shown = samples
    /\ (quit_at > 0 /\ args.flag_ncurses) =>
          /\ pc \in {"finally", "exited"}
          /\ exitcode = "0"
          /\ samples = quit_at
          /\ attempts = quit_at
    /\ leave = "quit" => (args.flag_ncurses /\ quit_at = samples)

C12_Witness ==
    /\ leave = "quit"
    /\ quit_at = 2
    /\ shown = 2
    /\ pc = "exited"
    /\ exitcode = "0"

C14_Swapped256Is100Percent ==
    (sample.valid /\ (sample.capword % 256) * 256 + (sample.capword \div 256) = 256)
        => sample.batt = [int |-> 100, frac |-> 0]

\* C14 as amended: the charge is the byte-swapped register over 256, so a
\* register that is 256 after the swap gives exactly 1.0 percent and one
\* that is 25600 gives exactly 100.0 percent.
C14_ChargeIsSwappedOver256 ==
    sample.valid =>
        LET swapped == (sample.capword % 256) * 256 + (sample.capword \div 256)
        IN  /\ sample.batt.int * 256 + sample.batt.frac = swapped
            /\ sample.batt.frac \in 0..255
            /\ swapped = 256 => sample.batt = [int |-> 1, frac |-> 0]
            /\ swapped = 25600 => sample.batt = [int |-> 100, frac |-> 0]

C14_Witness ==
    /\ sample.valid
    /\ sample.capword = 1
    /\ sample.batt = [int |-> 1, frac |-> 0]

\* C15: the voltage is the byte-swapped register times 1.25 / 1000 / 16, so
\* a register that is 1280 after the swap gives exactly 0.1 V.
C15_VoltageConversion ==
    sample.valid =>
        LET swapped == (sample.voltword % 256) * 256 + (sample.voltword \div 256)
        IN  /\ sample.volt * 100 = swapped * 125 * (VoltDen \div (1000 * 16))
            /\ swapped = 1280 => sample.volt * 10 = VoltDen

C15_Witness ==
    /\ sample.valid
    /\ sample.voltword = 5
    /\ sample.volt * 10 = VoltDen

\* C16: a temperature line that is not a number or not positive gives the
\* sentinel -1 and an error message for that cycle only: the voltage and
\* the charge are read, the voltage check runs, the loop is not left, and a
\* later well-formed line gives its temperature.
C16_MalformedTemperatureIsLocal ==
    /\ sample.valid =>
          LET line == sample.templine
              bad == (~line.num) \/ line.val <= 0
          IN  /\ temp_fd = "open"
              /\ bad => (sample.temp.int = -1 /\ sample.temp.milli = 0
                         /\ "err_temp" \in stderr)
              /\ ~bad => (sample.temp.int * 1000 + sample.temp.milli = line.val
                          /\ sample.temp.milli \in 0..999)
              /\ ~sample.temp.absent
              /\ sample.volt > 0
              /\ sample.batt.int > 0
              /\ pc \in {"do_shutdown", "display", "sleep"} => guards = samples
    /\ exitcode = "traceback" => temp_fd = "None"
    /\ leave = "exception" => temp_fd = "None"

C16_Witness ==
    /\ "err_temp" \in stderr
    /\ sample.valid
    /\ sample.templine = [num |-> TRUE, val |-> 45500]
    /\ sample.temp = [absent |-> FALSE, int |-> 45, milli |-> 500]
    /\ samples >= 2
    /\ guards = samples

\* C17: in every cycle the voltage check is evaluated once and before the
\* output of that cycle, so no sample below min_voltage is ever shown with
\* watch-only off.
C17_GuardOnceBeforeOutput ==
    /\ guards <= samples
    /\ samples <= guards + 1
    /\ pc = "guard" => samples = guards + 1
    /\ pc \in {"do_shutdown", "display", "sleep"} => guards = samples
    /\ shown <= guards
    /\ (shown > 0 /\ shown = samples) =>
          /\ guardRes = "Ok"
          /\ args.flag_watch \/ sample.volt >= min_voltage
    /\ (stdout \cap {"sample", "nco_sample"}) # {} => shown > 0

C17_Witness ==
    /\ ~args.flag_watch
    /\ shown = samples
    /\ samples >= 2
    /\ guards = samples
    /\ sample.volt = min_voltage

\* C18: the AC-loss and AC-restore callbacks only observe: a step on which
\* the AC line changes issues no command and leaves the state of the loop
\* and of the button untouched.
C18_AcCallbacksOnlyObserve ==
    [][(ac' # ac) => UNCHANGED <<mainVars, actions, gpioVars, btnVars>>]_vars

C18_Witness ==
    /\ ac = "lost"
    /\ pld_cb
    /\ samples >= 1
    /\ btn = "down"
    /\ actions = <<>>

\* C19: nco.cleanup() runs exactly once on every way out of the loop (quit
\* key, interrupt, poweroff issued by the loop, exception in get_params)
\* when the ncurses screen was set up, and never when it was not.
C19_CleanupOnceOnEveryWayOut ==
    /\ cleanups <= 1
    /\ ~nco => cleanups = 0
    /\ pc # "exited" => cleanups = 0
    /\ (pc = "exited" /\ leave \in {"quit", "interrupt", "interrupt_wait",
                                     "shutdown", "exception"})
          => cleanups = (IF nco THEN 1 ELSE 0)

C19_Witness ==
    /\ leave = "shutdown"
    /\ nco
    /\ cleanups = 1
    /\ pc = "exited"

\* C20: in main the power-enable output is switched on, then the button
\* line is checked, and only when the check has passed are the release and
\* held callbacks set, all before the first sample; no button command is
\* issued before the check has passed and none when it fails.
C20_CallbacksOnlyAfterWiringCheck ==
    /\ (when_released \/ when_held) => (button_value = "up" /\ pwr_trigger)
    /\ button_value # "unread" => pwr_trigger
    /\ when_held => when_released
    /\ (attempts > 0 /\ ~args.flag_watch) => (when_released /\ when_held)
    /\ FromButton # {} => button_value = "up"
    /\ button_value = "down" => (FromButton = {} /\ cb = NoCallback)

C20_Witness ==
    /\ FromButton # {}
    /\ button_value = "up"
    /\ pwr_trigger
    /\ attempts = 0

====
